---------------------------- MODULE Spec2Model ----------------------------
(* Service lifecycle, runtime installer and orchestration of the Alice AI   *)
(* backend (src/python): the three services (STT, TTS, Embeddings), the     *)
(* RuntimeInstaller they share, and the callers of both (the lifespan       *)
(* handler and the model-download request handler).                         *)
(*                                                                          *)
(* Scheduling is asyncio's: one task runs at a time and keeps running until *)
(* it suspends (a contended lock, the install subprocess, a worker-pool     *)
(* call).  A task whose pc is not a suspension point is "running", and no   *)
(* other task steps while one is running.                                   *)
EXTENDS Integers, Sequences, FiniteSets

\* ------------------------------------------------------------------ bounds
\* Tasks that call in concurrently; calls made directly on a service or on
\* the installer in one run; requests the application receives in one run.
NumTasks == 2

MaxCalls == 3

MaxRequests == 2
\* The longest candidate list of a similarity search.
MaxCands == 3

\* ------------------------------------------------------------- vocabulary
Services == {"stt", "tts", "embeddings"}

\* The task that runs lifespan(), and the tasks that call in or serve requests.
Main == 0

Callers == 1..NumTasks

Tasks == {Main} \cup Callers

\* The order in which lifespan() initializes the services.
Order == <<"stt", "tts", "embeddings">>

\* The package each service depends on.
Package(s) ==
    CASE s = "stt" -> "faster-whisper"
      [] s = "tts" -> "kokoro"
      [] OTHER     -> "sentence-transformers"

Packages == {Package(s) : s \in Services}

\* self.model = None
NoModel == 0

VARIABLES
    model,              \* service -> handle (NoModel, or the id of the constructed object)
    initialized,        \* service -> self._initialized
    embedding_dimension,\* EmbeddingsService.embedding_dimension: "None" or "set"
    lock,               \* service -> set of tasks holding self._lock (empty or one task)
    available,          \* service -> FASTER_WHISPER_AVAILABLE / KOKORO_AVAILABLE / SENTENCE_TRANSFORMERS_AVAILABLE
    installed_packages, \* package -> bool (RuntimeInstaller.installed_packages)
    install_lock,       \* set of tasks holding RuntimeInstaller.install_lock
    importable,         \* package -> whether importing it succeeds in this interpreter now
    tasks,              \* task -> its frame: operation, service, pc, call stack, result
    constructed,        \* number of model objects constructed so far (ids of handles)
    cleaned,            \* service -> cleanup() has completed on it at least once
    calls,              \* number of top-level calls and requests started
    services,           \* main.services: the registered services, in insertion order
    enabled,            \* service -> settings.enable_stt / enable_tts / enable_embeddings
    downloading,        \* service -> runtime_installer._downloading_<service>
    startup             \* service -> how its initialize() in lifespan() ended

vars == <<model, initialized, embedding_dimension, lock, available,
          installed_packages, install_lock, importable, tasks, constructed,
          cleaned, calls, services, enabled, downloading, startup>>

appVars == <<services, enabled, downloading, startup>>

svcVars == <<model, initialized, embedding_dimension>>

\* ------------------------------------------------------------ task frames
\* pc values at which a task is suspended (or not running at all); at every
\* other pc the task is running on the event loop.
Suspended == {"idle", "done", "ensure_wait", "ensure_pip", "init_wait",
              "init_create", "cleanup_wait", "ls_bulk", "ls_serving",
              "infer_run"}

IdleFrame ==
    [op |-> "none", svc |-> "stt", pc |-> "idle", ctx |-> <<>>, ret |-> "None",
     pre |-> [model |-> NoModel, ready |-> FALSE, cleaned |-> FALSE],
     tried |-> FALSE, seen |-> FALSE, pip |-> FALSE, idx |-> 1,
     via |-> "none", input |-> "none", work |-> FALSE, body |-> {}, faults |-> {},
     locked |-> FALSE, tests |-> 0, rc |-> "none", retry |-> FALSE,
     during |-> {}, probed |-> FALSE,
     query |-> <<>>, cands |-> <<>>, top_k |-> 0, results |-> <<>>,
     scored |-> {}, named |-> {}, voice |-> "none", used |-> "none"]

\* No task other than t is running: t may take the event loop.
MayRun(t) == \A u \in Tasks \ {t} : tasks[u].pc \in Suspended

\* The function whose body task t is executing, and the one that called it.
Current(t) == tasks[t].ctx[Len(tasks[t].ctx)]

Caller(t) ==
    IF Len(tasks[t].ctx) > 1 THEN tasks[t].ctx[Len(tasks[t].ctx) - 1] ELSE "none"

\* The services whose model construction is on the worker pool.
InFlight ==
    {s \in Services : \E u \in Tasks : tasks[u].pc = "init_create" /\ tasks[u].svc = s}

\* Task t is inside a call of initialize() on service s.
InInitialize(t, s) ==
    /\ tasks[t].svc = s
    /\ tasks[t].pc \notin {"idle", "done"}
    /\ \E i \in 1..Len(tasks[t].ctx) : tasks[t].ctx[i] = "initialize"

\* Where the caller resumes when callee `fn` returns to `caller`.
Resume(caller, fn) ==
    CASE caller = "none" -> "done"
      [] caller = "initialize" -> "init_ensured"
      [] caller = "download" /\ fn = "ensure" -> "dl_ensured"
      [] caller = "download" /\ fn = "initialize" -> "dl_inited"
      [] caller = "lifespan" /\ fn = "initialize" -> "ls_inited"
      [] caller = "handler" -> "handler_ret"
      [] OTHER -> "ls_cleaned"

\* The frame of t after its current function returns v.  When the task's
\* own operation returns, what is left is the operation, its result and what
\* the operation found when it started.
Returned(f, v) ==
    LET n == Len(f.ctx)
        caller == IF n > 1 THEN f.ctx[n - 1] ELSE "none"
    IN  IF n > 1
        THEN [f EXCEPT !.ctx = SubSeq(f.ctx, 1, n - 1),
                       !.pc = Resume(caller, f.ctx[n]),
                       !.ret = v]
        ELSE [IdleFrame EXCEPT !.op = f.op, !.svc = f.svc, !.pc = "done",
                               !.ret = v, !.pre = f.pre, !.tried = f.tried,
                               !.via = f.via, !.input = f.input, !.work = f.work,
                               !.body = f.body, !.faults = f.faults,
                               !.locked = f.locked, !.tests = f.tests,
                               !.rc = f.rc, !.retry = f.retry,
                               !.seen = f.seen, !.during = f.during,
                               !.voice = f.voice, !.used = f.used]

\* The frame of t when it calls function fn.
Calling(f, fn) ==
    [f EXCEPT !.ctx = Append(f.ctx, fn), !.pc = fn \o "_call"]

\* ------------------------------------------------- services: pure reads
\* A variant of is_ready() that looks at the handle alone.
HandleSet(s) == model[s] # NoModel

\* is_ready(): self._initialized and self.model is not None
is_ready(s) == initialized[s] /\ model[s] # NoModel

\* A variant of get_model_info() that goes by the handle.
ModelInfoByHandle(s) == IF model[s] = NoModel THEN "not_initialized" ELSE "ready"

\* get_model_info()["status"]
get_model_info(s) == IF ~initialized[s] THEN "not_initialized" ELSE "ready"

ServiceState(s) ==
    [model |-> model[s], initialized |-> initialized[s],
     dim |-> IF s = "embeddings" THEN embedding_dimension ELSE "None"]


\* ------------------------------------------------------ RuntimeInstaller
\* The outcome of the import_test a caller hands to ensure_package_installed,
\* run while `imp` says which packages import: "ok", "ImportError", or
\* "Exception" (an exception that is not an ImportError).
\*  - STTService.initialize passes lambda: _import_faster_whisper(), a name
\*    stt.py never defines: calling it raises NameError.
\*  - TTSService.initialize passes _import_kokoro, which returns at once when
\*    KOKORO_AVAILABLE and imports kokoro otherwise.
\*  - download_model passes lambda: __import__(<package>).
ImportResult(caller, s, imp) ==
    CASE caller = "initialize" /\ s = "stt" -> "Exception"
      [] caller = "initialize" /\ s = "tts" ->
            IF available["tts"] \/ imp["kokoro"] THEN "ok" ELSE "ImportError"
      [] OTHER -> IF imp[Package(s)] THEN "ok" ELSE "ImportError"

\* _import_kokoro sets KOKORO_AVAILABLE when its import succeeded.
AvailableAfter(caller, s, r) ==
    IF caller = "initialize" /\ s = "tts" /\ r = "ok"
    THEN [available EXCEPT !["tts"] = TRUE]
    ELSE available

\* A variant in which leaving an `async with` block keeps the lock.
ReleasedNever(held, t) == held

\* The holders of a lock once t has left its `async with` block, by a return
\* or by an exception.
Released(held, t) == held \ {t}

\* A variant without the install lock: every caller enters at once.
InstallLockIgnored == TRUE

\* `async with self.install_lock` can be entered.
InstallLockFree == install_lock = {}

\* A variant in which nothing is ever found marked.
MarkedInstalledNever(p) == FALSE

\* if self.installed_packages.get(package_name, False)
MarkedInstalled(p) == installed_packages[p]

\* is_package_installed(package_name)
is_package_installed(p) == installed_packages[p]

\* What a call of ensure_package_installed has done so far, kept with the
\* caller: whether it took install_lock, how often it ran import_test, and
\* how its install subprocess ended ("none" when it spawned none, "zero",
\* "nonzero" for a nonzero exit or a failed spawn).
NothingDone(f) == [f EXCEPT !.locked = FALSE, !.tests = 0, !.rc = "none"]

\* A variant that installs whatever the first import_test did.
AfterImportTestInstalls(r) == "install"

\* What follows the first import_test (lines 48-61, 81-83): on success the
\* package is marked; `except ImportError: pass` leads to the install; any
\* other exception reaches the outer `except Exception` and returns False.
AfterImportTest(r) ==
    CASE r = "ok" -> "mark"
      [] r = "ImportError" -> "install"
      [] OTHER -> "fail"

\* Variants of the verification after the install: one that trusts the exit
\* status alone, one that marks the package whatever happened, and one that
\* never marks it.
VerifiedByExit(success, r) == success

VerifiedAlways(success, r) == TRUE

VerifiedNever(success, r) == FALSE

\* The package counts as installed after _install_package returned `success`
\* when the exit status was 0 and the import_test, run again, passed.
Verified(success, r) == success /\ r = "ok"

\* ensure_package_installed from the acquisition of install_lock to the first
\* await (the install subprocess) or to its return.
EnsureLocked(t) ==
    LET f == [NothingDone(tasks[t]) EXCEPT !.locked = TRUE]
        g == [f EXCEPT !.tests = 1]
        p == Package(f.svc)
        r == ImportResult(Caller(t), f.svc, importable)
    IN  /\ UNCHANGED importable
        /\ IF MarkedInstalled(p)
           THEN /\ tasks' = [tasks EXCEPT ![t] = Returned(f, "True")]
                /\ install_lock' = Released(install_lock, t)
                /\ UNCHANGED <<installed_packages, available>>
           ELSE CASE AfterImportTest(r) = "mark" ->
                       /\ installed_packages' = [installed_packages EXCEPT ![p] = TRUE]
                       /\ available' = AvailableAfter(Caller(t), f.svc, r)
                       /\ tasks' = [tasks EXCEPT ![t] = Returned(g, "True")]
                       /\ install_lock' = Released(install_lock, t)
                  [] AfterImportTest(r) = "install" ->
                       /\ tasks' = [tasks EXCEPT ![t] = [g EXCEPT !.pc = "ensure_pip"]]
                       /\ install_lock' = {t}
                       /\ UNCHANGED <<installed_packages, available>>
                  [] OTHER ->
                       /\ tasks' = [tasks EXCEPT ![t] = Returned(g, "False")]
                       /\ install_lock' = Released(install_lock, t)
                       /\ UNCHANGED <<installed_packages, available>>

\* ensure_package_installed, from its call: the fast path, or the lock.
EnsureEnter(t) ==
    /\ tasks[t].pc = "ensure_call"
    /\ MayRun(t)
    /\ UNCHANGED <<svcVars, lock, constructed, cleaned, calls, appVars>>
    /\ IF MarkedInstalled(Package(tasks[t].svc))
       THEN /\ tasks' = [tasks EXCEPT ![t] = Returned(NothingDone(tasks[t]), "True")]
            /\ UNCHANGED <<installed_packages, install_lock, importable, available>>
       ELSE IF InstallLockFree
            THEN EnsureLocked(t)
            ELSE /\ tasks' = [tasks EXCEPT ![t] =
                                [NothingDone(tasks[t]) EXCEPT !.pc = "ensure_wait"]]
                 /\ UNCHANGED <<installed_packages, install_lock, importable, available>>

\* A caller that waited for install_lock gets it.
EnsureAcquire(t) ==
    /\ tasks[t].pc = "ensure_wait"
    /\ MayRun(t)
    /\ InstallLockFree
    /\ UNCHANGED <<svcVars, lock, constructed, cleaned, calls, appVars>>
    /\ EnsureLocked(t)

\* _install_package returned: the pip subprocess exited (rc = 0 or not; a
\* spawn failure counts as a failure), and after an exit of 0 the package
\* imports or, with a mismatched runtime, still does not.
EnsurePipDone(t) ==
    /\ tasks[t].pc = "ensure_pip"
    /\ MayRun(t)
    /\ UNCHANGED <<svcVars, lock, constructed, cleaned, calls, appVars>>
    /\ install_lock' = Released(install_lock, t)
    /\ \E success \in BOOLEAN, works \in BOOLEAN :
         LET f == [tasks[t] EXCEPT !.rc = IF success THEN "zero" ELSE "nonzero",
                                   !.tests = IF success THEN @ + 1 ELSE @]
             p == Package(f.svc)
             imp == IF success
                    THEN [importable EXCEPT ![p] = importable[p] \/ works]
                    ELSE importable
             r == ImportResult(Caller(t), f.svc, imp)
         IN  /\ success \/ ~works
             /\ importable' = imp
             /\ IF Verified(success, r)
                THEN /\ installed_packages' = [installed_packages EXCEPT ![p] = TRUE]
                     /\ available' = AvailableAfter(Caller(t), f.svc, r)
                     /\ tasks' = [tasks EXCEPT ![t] =
                                     Returned([f EXCEPT !.pip = TRUE], "True")]
                ELSE /\ tasks' = [tasks EXCEPT ![t] = Returned(f, "False")]
                     /\ UNCHANGED <<installed_packages, available>>

\* --------------------------------------------------------------- services
\* A variant without the service lock: every caller enters at once.
ServiceLockIgnored(s) == TRUE

\* `async with self._lock` can be entered.
ServiceLockFree(s) == lock[s] = {}

\* A variant without the check of _initialized under the lock.
InitializedNotChecked(s) == FALSE

\* if self._initialized: return True
AlreadyInitialized(s) == initialized[s]

\* The state of the service at the start of a call, kept with the caller.
Snapshot(s) == [model |-> model[s], ready |-> is_ready(s), cleaned |-> cleaned[s]]

\* What initialize() does with an error: every path through it is inside a
\* try ... except Exception that logs and returns False.
InitializeFailedRaises == "Raise"

InitializeFailed == "False"

\* initialize(), from its call to the dependency check.
\*  - EmbeddingsService: if not SENTENCE_TRANSFORMERS_AVAILABLE: return False
\*  - STTService, TTSService: await runtime_installer.ensure_package_installed
InitializeEnter(t) ==
    LET f == [tasks[t] EXCEPT !.pre = Snapshot(tasks[t].svc),
                              !.tried = FALSE,
                              !.seen = \E u \in Tasks \ {t} :
                                          /\ tasks[u].pc = "init_create"
                                          /\ tasks[u].svc = tasks[t].svc]
    IN  /\ tasks[t].pc = "initialize_call"
        /\ MayRun(t)
        /\ UNCHANGED <<svcVars, lock, available, installed_packages, install_lock,
                       importable, constructed, cleaned, calls, appVars>>
        /\ IF f.svc = "embeddings"
           THEN IF available["embeddings"]
                THEN tasks' = [tasks EXCEPT ![t] = [f EXCEPT !.pc = "init_lock"]]
                ELSE tasks' = [tasks EXCEPT ![t] = Returned(f, InitializeFailed)]
           ELSE tasks' = [tasks EXCEPT ![t] = Calling(f, "ensure")]

\* initialize() after ensure_package_installed returned (STT, TTS).
\*  - if not installed: return False
\*  - TTSService then calls _import_kokoro() itself; whatever it raises is
\*    caught and initialize returns False.
InitEnsured(t) ==
    LET f == tasks[t]
        r == ImportResult("initialize", "tts", importable)
    IN  /\ f.pc = "init_ensured"
        /\ MayRun(t)
        /\ UNCHANGED <<svcVars, lock, installed_packages, install_lock,
                       importable, constructed, cleaned, calls, appVars>>
        /\ IF f.ret # "True"
           THEN /\ tasks' = [tasks EXCEPT ![t] = Returned(f, InitializeFailed)]
                /\ UNCHANGED available
           ELSE IF f.svc = "tts" /\ r # "ok"
                THEN /\ tasks' = [tasks EXCEPT ![t] = Returned(f, InitializeFailed)]
                     /\ UNCHANGED available
                ELSE /\ tasks' = [tasks EXCEPT ![t].pc = "init_lock"]
                     /\ available' = AvailableAfter("initialize", f.svc, "ok")

\* initialize() with self._lock taken by t: the re-entrant return, or the
\* model construction handed to the worker pool (run_in_executor).
InitLocked(t) ==
    LET f == tasks[t]
        s == f.svc
    IN  IF AlreadyInitialized(s)
        THEN /\ tasks' = [tasks EXCEPT ![t] = Returned(f, "True")]
             /\ lock' = [lock EXCEPT ![s] = Released(@, t)]
        ELSE /\ lock' = [lock EXCEPT ![s] = {t}]
             /\ tasks' = [u \in Tasks |->
                    IF u = t THEN [f EXCEPT !.pc = "init_create", !.tried = TRUE]
                    ELSE IF InInitialize(u, s) THEN [tasks[u] EXCEPT !.seen = TRUE]
                    ELSE tasks[u]]

\* initialize() reaches `async with self._lock`.
InitLock(t) ==
    /\ tasks[t].pc = "init_lock"
    /\ MayRun(t)
    /\ UNCHANGED <<svcVars, available, installed_packages, install_lock,
                   importable, constructed, cleaned, calls, appVars>>
    /\ IF ServiceLockFree(tasks[t].svc)
       THEN InitLocked(t)
       ELSE /\ tasks' = [tasks EXCEPT ![t].pc = "init_wait"]
            /\ UNCHANGED lock

\* A caller of initialize() that waited for self._lock gets it.
InitAcquire(t) ==
    /\ tasks[t].pc = "init_wait"
    /\ MayRun(t)
    /\ ServiceLockFree(tasks[t].svc)
    /\ UNCHANGED <<svcVars, available, installed_packages, install_lock,
                   importable, constructed, cleaned, calls, appVars>>
    /\ InitLocked(t)

\* Whether the constructor can succeed at all: WhisperModel is None when the
\* import at the top of stt.py failed, and _create_pipeline raises unless
\* KOKORO_AVAILABLE.
ConstructorPresent(s) == available[s]

\* The worker-pool construction finished: the rest of initialize().
\*  - it raised: return False (nothing was assigned)
\*  - it returned m: self.model = m; EmbeddingsService then reads the model's
\*    metadata (get_sentence_embedding_dimension), which may raise after the
\*    assignment; self._initialized = True; return True
InitCreateDone(t) ==
    LET f == tasks[t]
        s == f.svc
    IN  /\ f.pc = "init_create"
        /\ MayRun(t)
        /\ UNCHANGED <<available, installed_packages, install_lock, importable,
                       cleaned, calls, appVars>>
        /\ lock' = [lock EXCEPT ![s] = Released(@, t)]
        /\ \E built \in BOOLEAN, meta \in BOOLEAN :
             /\ built => ConstructorPresent(s)
             /\ ~built => meta
             /\ (s # "embeddings") => meta
             /\ IF ~built
                THEN /\ tasks' = [tasks EXCEPT ![t] = Returned(f, InitializeFailed)]
                     /\ UNCHANGED <<svcVars, constructed>>
                ELSE /\ constructed' = constructed + 1
                     /\ model' = [model EXCEPT ![s] = constructed + 1]
                     /\ IF meta
                        THEN /\ initialized' = [initialized EXCEPT ![s] = TRUE]
                             /\ embedding_dimension' =
                                  IF s = "embeddings" THEN "set" ELSE embedding_dimension
                             /\ tasks' = [tasks EXCEPT ![t] = Returned(f, "True")]
                        ELSE /\ UNCHANGED <<initialized, embedding_dimension>>
                             /\ tasks' = [tasks EXCEPT ![t] = Returned(f, InitializeFailed)]

\* cleanup() with self._lock taken, leaving handle m and flag i: the lock is
\* released, the call returns None; nothing in it awaits or raises.
CleanupWith(t, m, i) ==
    LET f == tasks[t]
        s == f.svc
    IN  /\ model' = [model EXCEPT ![s] = m]
        /\ initialized' = [initialized EXCEPT ![s] = i]
        /\ embedding_dimension' =
             IF s = "embeddings" THEN "None" ELSE embedding_dimension
        /\ cleaned' = [cleaned EXCEPT ![s] = TRUE]
        /\ lock' = [lock EXCEPT ![s] = Released(@, t)]
        /\ tasks' = [u \in Tasks |->
              IF u = t THEN Returned([f EXCEPT !.pre = Snapshot(s)], "None")
              ELSE IF InInitialize(u, s) THEN [tasks[u] EXCEPT !.seen = FALSE]
              ELSE tasks[u]]

CleanupLockedNoop(t) ==
    CleanupWith(t, model[tasks[t].svc], initialized[tasks[t].svc])

CleanupLockedKeepsFlag(t) == CleanupWith(t, NoModel, initialized[tasks[t].svc])

CleanupLockedKeepsModel(t) == CleanupWith(t, model[tasks[t].svc], FALSE)

\* cleanup() with self._lock taken: self.model = None (for the Embeddings
\* service after a best-effort move to the CPU), self._initialized = False,
\* and the Embeddings metadata cleared.
CleanupLocked(t) == CleanupWith(t, NoModel, FALSE)

\* cleanup(), from its call.
CleanupEnter(t) ==
    /\ tasks[t].pc = "cleanup_call"
    /\ MayRun(t)
    /\ UNCHANGED <<available, installed_packages, install_lock, importable,
                   constructed, calls, appVars>>
    /\ IF ServiceLockFree(tasks[t].svc)
       THEN CleanupLocked(t)
       ELSE /\ tasks' = [tasks EXCEPT ![t].pc = "cleanup_wait"]
            /\ UNCHANGED <<svcVars, lock, cleaned>>

\* A caller of cleanup() that waited for self._lock gets it.
CleanupAcquire(t) ==
    /\ tasks[t].pc = "cleanup_wait"
    /\ MayRun(t)
    /\ ServiceLockFree(tasks[t].svc)
    /\ UNCHANGED <<available, installed_packages, install_lock, importable,
                   constructed, calls, appVars>>
    /\ CleanupLocked(t)

\* -------------------------------------------- callers of the public methods
\* Whether a call of ensure_package_installed for the package of s comes after
\* one that has returned False.
FailedBefore(fn, s) ==
    /\ fn = "ensure"
    /\ \E u \in Tasks : /\ tasks[u].pc = "done" /\ tasks[u].op = "ensure"
                        /\ tasks[u].svc = s /\ tasks[u].ret = "False"

\* A task starts a call of one public method: initialize() or cleanup() of a
\* service, or ensure_package_installed for a service's package with the
\* plain import as its import_test.  The callers of one run all address the
\* same service object (and its package).
Call(t, fn, s) ==
    /\ tasks[t].pc \in {"idle", "done"}
    /\ MayRun(t)
    /\ calls < MaxCalls
    /\ \A u \in Tasks : tasks[u].op = "none" \/ tasks[u].svc = s
    /\ calls' = calls + 1
    /\ tasks' = [tasks EXCEPT ![t] =
                    Calling([IdleFrame EXCEPT !.op = fn, !.svc = s,
                                              !.retry = FailedBefore(fn, s)], fn)]
    /\ UNCHANGED <<svcVars, lock, available, installed_packages, install_lock,
                   importable, constructed, cleaned, appVars>>

CallInitialize(t, s) == Call(t, "initialize", s)

CallCleanup(t, s) == Call(t, "cleanup", s)

CallEnsure(t, s) == Call(t, "ensure", s)

\* What a read of the service returns: is_ready() a boolean, get_model_info()
\* the status of the object it builds.  Neither has a lock, an await or a
\* raise in it.
Read(fn, s) ==
    IF fn = "is_ready"
    THEN IF is_ready(s) THEN "True" ELSE "False"
    ELSE get_model_info(s)

\* A task calls is_ready() or get_model_info() of a service: the call returns
\* in the step that makes it, whatever the other tasks are in the middle of.
Probe(t, fn, s) ==
    /\ tasks[t].pc \in {"idle", "done"}
    /\ MayRun(t)
    /\ calls < MaxCalls
    /\ \A u \in Tasks : tasks[u].op = "none" \/ tasks[u].svc = s
    /\ calls' = calls + 1
    /\ tasks' = [tasks EXCEPT ![t] =
          [IdleFrame EXCEPT !.op = fn, !.svc = s, !.pc = "done",
                            !.ret = Read(fn, s), !.pre = Snapshot(s),
                            !.seen = \E u \in Tasks \ {t} :
                                        /\ tasks[u].pc = "init_create"
                                        /\ tasks[u].svc = s]]
    /\ UNCHANGED <<svcVars, lock, available, installed_packages, install_lock,
                   importable, constructed, cleaned, appVars>>

CallIsReady(t, s) == Probe(t, "is_ready", s)

CallGetModelInfo(t, s) == Probe(t, "get_model_info", s)

\* ------------------------------------------------------------ specification
\* The process after its modules are loaded and the singletons constructed:
\* no model, nothing marked installed, all locks free.  A package imports or
\* not; the import at the top of stt.py and embeddings.py has set
\* FASTER_WHISPER_AVAILABLE and SENTENCE_TRANSFORMERS_AVAILABLE accordingly,
\* and tts.py starts with KOKORO_AVAILABLE = False.
Loaded ==
    /\ model = [s \in Services |-> NoModel]
    /\ initialized = [s \in Services |-> FALSE]
    /\ embedding_dimension = "None"
    /\ lock = [s \in Services |-> {}]
    /\ importable \in [Packages -> BOOLEAN]
    /\ available = [s \in Services |->
                      IF s = "tts" THEN FALSE ELSE importable[Package(s)]]
    /\ installed_packages = [p \in Packages |-> FALSE]
    /\ install_lock = {}
    /\ tasks = [t \in Tasks |-> IdleFrame]
    /\ constructed = 0
    /\ cleaned = [s \in Services |-> FALSE]
    /\ calls = 0
    /\ services = <<>>
    /\ downloading = [s \in Services |-> FALSE]
    /\ startup = [s \in Services |-> "none"]

\* The services and the installer called directly, with every capability
\* enabled (the defaults of config.Settings).
Init ==
    /\ Loaded
    /\ enabled = [s \in Services |-> TRUE]

Step(t) ==
    \/ EnsureEnter(t)
    \/ EnsureAcquire(t)
    \/ EnsurePipDone(t)
    \/ InitializeEnter(t)
    \/ InitEnsured(t)
    \/ InitLock(t)
    \/ InitAcquire(t)
    \/ InitCreateDone(t)
    \/ CleanupEnter(t)
    \/ CleanupAcquire(t)

Next ==
    \/ \E t \in Callers, s \in Services : CallInitialize(t, s)
    \/ \E t \in Callers, s \in Services : CallCleanup(t, s)
    \/ \E t \in Callers, s \in Services : CallEnsure(t, s)
    \/ \E t \in Callers, s \in Services : CallIsReady(t, s)
    \/ \E t \in Callers, s \in Services : CallGetModelInfo(t, s)
    \/ \E t \in Callers : Step(t)

Spec == Init /\ [][Next]_vars

\* The same callers under asyncio's scheduler: a task that can run is run, so
\* a subprocess that has exited, a worker-pool call that is over and a lock
\* that has become free are each noticed by the task waiting for them.
\* The callers of one run address one service, so one package decides what
\* they meet: the packages are taken to import all or not at all.  The reads
\* of a service return in the step that calls them and are left out.
LiveInit ==
    /\ Init
    /\ \E b \in BOOLEAN : importable = [p \in Packages |-> b]

LiveNext ==
    \/ \E t \in Callers, s \in Services : CallInitialize(t, s)
    \/ \E t \in Callers, s \in Services : CallCleanup(t, s)
    \/ \E t \in Callers, s \in Services : CallEnsure(t, s)
    \/ \E t \in Callers : Step(t)

LiveSpec ==
    /\ LiveInit
    /\ [][LiveNext]_vars
    /\ \A t \in Callers : WF_vars(Step(t))

\* ------------------------------------------------------------ application
\* services["<name>"] = service: a new key goes last, an old one keeps its place.
Register(reg, s) ==
    IF \E i \in 1..Len(reg) : reg[i] = s THEN reg ELSE Append(reg, s)

\* '<name>' in services
Registered(s) == \E i \in 1..Len(services) : services[i] = s

\* /api/health: the is_ready() of every registered service.
health_check == [s \in {services[i] : i \in 1..Len(services)} |-> is_ready(s)]

\* lifespan() starts: the bulk install when none of the three packages is
\* marked installed.
LifespanStart ==
    /\ tasks[Main].pc = "idle"
    /\ MayRun(Main)
    /\ tasks' = [tasks EXCEPT ![Main] =
          [IdleFrame EXCEPT !.op = "lifespan", !.ctx = <<"lifespan">>,
                            !.pc = IF \E p \in Packages : is_package_installed(p)
                                   THEN "ls_init" ELSE "ls_bulk"]]
    /\ UNCHANGED <<svcVars, lock, available, installed_packages, install_lock,
                   importable, constructed, cleaned, calls, appVars>>

\* install_ai_dependencies() returned: pip install -r exited.  On exit 0 every
\* package is marked installed, whether it imports or not; no lock is taken.
\* lifespan() ignores the result.
BulkInstallDone ==
    /\ tasks[Main].pc = "ls_bulk"
    /\ MayRun(Main)
    /\ tasks' = [tasks EXCEPT ![Main].pc = "ls_init"]
    /\ \E success \in BOOLEAN, works \in [Packages -> BOOLEAN] :
         /\ ~success => works = [p \in Packages |-> FALSE]
         /\ importable' = [p \in Packages |-> importable[p] \/ works[p]]
         /\ installed_packages' =
               IF success THEN [p \in Packages |-> TRUE] ELSE installed_packages
    /\ UNCHANGED <<svcVars, lock, available, install_lock, constructed, cleaned,
                   calls, appVars>>

\* lifespan(): the next service in turn; initialize() when it is enabled.
\* After the last one the application serves requests (yield).
LifespanInit ==
    LET f == tasks[Main]
    IN  /\ f.pc = "ls_init"
        /\ MayRun(Main)
        /\ tasks' = [tasks EXCEPT ![Main] =
              IF f.idx > Len(Order)
              THEN [IdleFrame EXCEPT !.op = "lifespan", !.ctx = <<"lifespan">>,
                                     !.pc = "ls_serving"]
              ELSE IF enabled[Order[f.idx]]
                   THEN Calling([f EXCEPT !.svc = Order[f.idx]], "initialize")
                   ELSE [f EXCEPT !.idx = f.idx + 1]]
        /\ UNCHANGED <<svcVars, lock, available, installed_packages, install_lock,
                       importable, constructed, cleaned, calls, appVars>>

\* A variant in which a failed initialize() ends startup.
AfterInitializeAborts(f) ==
    IF f.ret = "True"
    THEN [f EXCEPT !.pc = "ls_init", !.idx = f.idx + 1, !.pip = FALSE]
    ELSE [f EXCEPT !.pc = "ls_cleanup", !.idx = 1, !.pip = FALSE]

\* lifespan() after an initialize() returned: on to the next service, whatever
\* the result (the else branch only logs).
AfterInitialize(f) ==
    [f EXCEPT !.pc = "ls_init", !.idx = f.idx + 1, !.pip = FALSE]

\* lifespan(): if success: services[name] = service.
LifespanInited ==
    LET f == tasks[Main]
    IN  /\ f.pc = "ls_inited"
        /\ MayRun(Main)
        /\ services' = IF f.ret = "True" THEN Register(services, f.svc) ELSE services
        /\ startup' = [startup EXCEPT ![f.svc] =
                          IF f.ret = "True" THEN "ready"
                          ELSE IF f.tried THEN "construction"
                          ELSE IF importable[Package(f.svc)] THEN "check"
                          ELSE "dependency"]
        /\ tasks' = [tasks EXCEPT ![Main] = AfterInitialize(f)]
        /\ UNCHANGED <<svcVars, lock, available, installed_packages, install_lock,
                       importable, constructed, cleaned, calls, enabled, downloading>>

\* Shutdown: the server runs the rest of lifespan() once the requests in
\* flight have finished; their tasks are gone by then.
LifespanShutdown ==
    /\ tasks[Main].pc = "ls_serving"
    /\ \A t \in Callers : tasks[t].pc \in {"idle", "done"}
    /\ tasks' = [t \in Tasks |->
          IF t = Main THEN [tasks[Main] EXCEPT !.pc = "ls_cleanup", !.idx = 1]
          ELSE IdleFrame]
    /\ UNCHANGED <<svcVars, lock, available, installed_packages, install_lock,
                   importable, constructed, cleaned, calls, appVars>>

\* lifespan(), finally: cleanup() of each registered service in turn, then
\* services.clear().
LifespanCleanup ==
    LET f == tasks[Main]
    IN  /\ f.pc = "ls_cleanup"
        /\ MayRun(Main)
        /\ IF f.idx <= Len(services)
           THEN /\ tasks' = [tasks EXCEPT ![Main] =
                                Calling([f EXCEPT !.svc = services[f.idx]], "cleanup")]
                /\ UNCHANGED services
           ELSE /\ tasks' = [tasks EXCEPT ![Main] =
                                Returned([f EXCEPT !.pre = IdleFrame.pre], "None")]
                /\ services' = <<>>
        /\ UNCHANGED <<svcVars, lock, available, installed_packages, install_lock,
                       importable, constructed, cleaned, calls, enabled, downloading,
                       startup>>

\* A variant without the try/except around the await of cleanup().
AfterCleanupPropagates(f, raised) ==
    IF raised
    THEN Returned([f EXCEPT !.pre = IdleFrame.pre, !.faults = @ \cup {f.svc}], "Raise")
    ELSE [f EXCEPT !.pc = "ls_cleanup", !.idx = f.idx + 1]

\* lifespan() after the await of a cleanup(), which returned or raised: an
\* exception is caught and logged, and the loop goes on either way.
AfterCleanup(f, raised) ==
    [f EXCEPT !.pc = "ls_cleanup", !.idx = f.idx + 1,
              !.faults = IF raised THEN @ \cup {f.svc} ELSE @]

\* lifespan(): the await of a cleanup() is over.
LifespanCleaned ==
    LET f == tasks[Main]
    IN  /\ f.pc = "ls_cleaned"
        /\ MayRun(Main)
        /\ \E raised \in BOOLEAN :
              tasks' = [tasks EXCEPT ![Main] = AfterCleanup(f, raised)]
        /\ UNCHANGED <<svcVars, lock, available, installed_packages, install_lock,
                       importable, constructed, cleaned, calls, appVars>>

\* POST /api/models/download/{service} arrives while the application serves.
RequestDownload(t, s) ==
    /\ tasks[Main].pc = "ls_serving"
    /\ tasks[t].pc \in {"idle", "done"}
    /\ MayRun(t)
    /\ calls < MaxRequests
    /\ calls' = calls + 1
    /\ tasks' = [tasks EXCEPT ![t] =
                    Calling([IdleFrame EXCEPT !.op = "download", !.svc = s,
                                              !.during = InFlight], "download")]
    /\ UNCHANGED <<svcVars, lock, available, installed_packages, install_lock,
                   importable, constructed, cleaned, appVars>>

\* download_model(): runtime_installer._downloading_<service> = True, then
\* await ensure_package_installed(<package>, lambda: __import__(<module>)).
DownloadEnter(t) ==
    LET f == tasks[t]
    IN  /\ f.pc = "download_call"
        /\ MayRun(t)
        /\ downloading' = [downloading EXCEPT ![f.svc] = TRUE]
        /\ tasks' = [tasks EXCEPT ![t] = Calling(f, "ensure")]
        /\ UNCHANGED <<svcVars, lock, available, installed_packages, install_lock,
                       importable, constructed, cleaned, calls, services, enabled, startup>>

\* A variant that does not look at the toggle of the service.
ShouldInitializeAnyway(s, success) == success = "True" /\ ~Registered(s)

\* download_model(): if success and settings.enable_<service> and
\* '<service>' not in services
ShouldInitialize(s, success) ==
    success = "True" /\ enabled[s] /\ ~Registered(s)

\* download_model(): _downloading_<service> = False; initialize() when the
\* install succeeded, the service is enabled and it is not registered;
\* otherwise the response {"success": success}.
DownloadEnsured(t) ==
    LET f == tasks[t]
    IN  /\ f.pc = "dl_ensured"
        /\ MayRun(t)
        /\ downloading' = [downloading EXCEPT ![f.svc] = FALSE]
        /\ tasks' = [tasks EXCEPT ![t] =
              IF ShouldInitialize(f.svc, f.ret)
              THEN Calling(f, "initialize")
              ELSE Returned(f, f.ret)]
        /\ UNCHANGED <<svcVars, lock, available, installed_packages, install_lock,
                       importable, constructed, cleaned, calls, services, enabled, startup>>

\* download_model(): initialize() returned; its result is not looked at:
\* services[<service>] = service, and the response {"success": True}.
DownloadInited(t) ==
    LET f == tasks[t]
    IN  /\ f.pc = "dl_inited"
        /\ MayRun(t)
        /\ services' = Register(services, f.svc)
        /\ tasks' = [tasks EXCEPT ![t] = Returned(f, "True")]
        /\ UNCHANGED <<svcVars, lock, available, installed_packages, install_lock,
                       importable, constructed, cleaned, calls, enabled, downloading,
                       startup>>

\* The application: any configuration of the three toggles.
AppInit ==
    /\ Loaded
    /\ enabled \in [Services -> BOOLEAN]

\* The steps of the services and of the installer.  cleanup() is only called
\* by lifespan() after the requests have finished, so it never waits for a
\* lock here.
AppStep(t) ==
    \/ EnsureEnter(t)
    \/ EnsureAcquire(t)
    \/ EnsurePipDone(t)
    \/ InitializeEnter(t)
    \/ InitEnsured(t)
    \/ InitLock(t)
    \/ InitAcquire(t)
    \/ InitCreateDone(t)
    \/ CleanupEnter(t)

AppNext ==
    \/ LifespanStart
    \/ BulkInstallDone
    \/ LifespanInit
    \/ LifespanInited
    \/ LifespanShutdown
    \/ LifespanCleanup
    \/ LifespanCleaned
    \/ \E t \in Callers, s \in Services : RequestDownload(t, s)
    \/ \E t \in Callers : DownloadEnter(t)
    \/ \E t \in Callers : DownloadEnsured(t)
    \/ \E t \in Callers : DownloadInited(t)
    \/ \E t \in Tasks : AppStep(t)

AppSpec == AppInit /\ [][AppNext]_vars

\* ------------------------------------------------------ inference requests
\* The six core operations, the service each belongs to, and the inputs that
\* matter to their checks: a valid one, an empty one (no audio samples, blank
\* text, no non-blank text, an empty embedding or no candidates) and, for the
\* two scoring operations, embeddings of different dimensions.
Ops == {"transcribe", "synthesize", "embed", "embed_batch", "similarity", "search"}

Scoring == {"similarity", "search"}

ServiceOf(op) ==
    CASE op = "transcribe" -> "stt"
      [] op = "synthesize" -> "tts"
      [] OTHER -> "embeddings"

Inputs(op) ==
    IF op \in Scoring THEN {"valid", "empty", "mismatch"} ELSE {"valid", "empty"}

\* TTSService.available_voices, and settings.tts_voice, the voice the service
\* is configured with.
available_voices == {"af_alloy", "af_bella", "af_heart", "af_sky",
                     "bf_alloy", "bf_bella", "bf_heart", "bf_sky"}

tts_voice == "af_bella"

\* The `voice` of a synthesis request: absent ("none"), one of the list, one
\* that is not.
Voices == {"none", "bf_sky", "xx_nobody"}

\* A variant that hands the requested voice to the backend unvalidated.
SelectedVoiceAsGiven(voice) == IF voice = "none" THEN tts_voice ELSE voice

\* synthesize_speech(): `voice or self.voice`, replaced by self.voice (with a
\* warning) when it is not in available_voices.
SelectedVoice(voice) ==
    LET selected_voice == IF voice = "none" THEN tts_voice ELSE voice
    IN  IF selected_voice \notin available_voices THEN tts_voice
        ELSE selected_voice

\* Everything but the task frames.
apiFrame == <<lock, available, installed_packages, install_lock, importable,
              constructed, cleaned, calls, appVars>>

\* The entry check of a service method: the four inference methods start with
\* `if not self._initialized or not self.model: raise RuntimeError(...)`;
\* compute_similarity and find_most_similar have no such check.
NotInitializedError(op) ==
    op \notin Scoring /\ ~is_ready(ServiceOf(op))

\* A variant without the blank-text return of generate_embedding.
BeforeBackendNoBlankCheck(op, input) ==
    CASE op \notin Scoring /\ ~is_ready(ServiceOf(op)) -> "RuntimeError"
      [] op \in {"embed_batch", "search"} /\ input = "empty" -> "Empty"
      [] OTHER -> "run"

\* What a service method returns without reaching its backend, "run" when it
\* hands work to the worker pool.
\*  - generate_embedding: blank text after cleaning -> None
\*  - generate_embeddings: no non-blank text -> []
\*  - find_most_similar: no candidates -> []
BeforeBackend(op, input) ==
    CASE NotInitializedError(op) -> "RuntimeError"
      [] op = "embed" /\ input = "empty" -> "None"
      [] op \in {"embed_batch", "search"} /\ input = "empty" -> "Empty"
      [] OTHER -> "run"

\* Whether the worker-pool call reaches the backend (or the scoring
\* arithmetic): _synthesize_text returns None for blank text before it calls
\* the pipeline.
ReachesBackend(op, input) == ~(op = "synthesize" /\ input = "empty")

\* What the service method returns once the worker-pool call is over, the
\* backend having worked ("ok") or thrown ("throw").
\*  - transcribe_audio logs and re-raises
\*  - _synthesize_text, _encode_single, _encode_batch catch and return None
\*  - _cosine_similarity: np.dot raises on vectors of different lengths
AfterBackend(op, input, outcome) ==
    CASE op = "synthesize" /\ input = "empty" -> "None"
      [] op \in Scoring -> IF input = "mismatch" THEN "Exception" ELSE "Result"
      [] op = "transcribe" -> IF outcome = "ok" THEN "Result" ELSE "Exception"
      [] OTHER -> IF outcome = "ok" THEN "Result" ELSE "None"

\* The checks of a route handler before it calls the service: what it raises,
\* or "none".
Dispatch(op, input) ==
    CASE ~is_ready(ServiceOf(op)) -> "503"
      [] input # "valid" -> "400"
      [] OTHER -> "none"

\* `except Exception as e: raise HTTPException(status_code=500, ...)` around the
\* whole body of every route handler: HTTPException is an Exception, so what
\* the body raised itself is answered the same way.
HandlerExcept(raised) == "500"

\* The response of a route handler to what the service method returned:
\* a result (or an empty list) is sent; None (synthesize, embed, embed_batch)
\* and every exception end in the except clause.
Respond(v) ==
    IF v \in {"Result", "Empty"} THEN "200" ELSE HandlerExcept("500")

\* A variant in which a failed inference marks the service uninitialized.
AfterInferenceResets(s, outcome) ==
    IF outcome = "throw" THEN [initialized EXCEPT ![s] = FALSE] ELSE initialized

\* The service's flag after an inference: no inference method assigns
\* self._initialized or the handle.
AfterInference(s, outcome) == initialized

\* A request for one of the core operations arrives at its route while the
\* application serves; the requests of one run are for the same operation.
ArriveWith(t, op, input, via, voice) ==
    /\ tasks[Main].pc = "ls_serving"
    /\ tasks[t].pc \in {"idle", "done"}
    /\ MayRun(t)
    /\ enabled[ServiceOf(op)]
    /\ \A u \in Callers : tasks[u].op \in {"none", op}
    /\ tasks' = [tasks EXCEPT ![t] =
          Calling([IdleFrame EXCEPT !.op = op, !.svc = ServiceOf(op),
                                    !.via = via, !.input = input,
                                    !.voice = voice,
                                    !.pre = Snapshot(ServiceOf(op))],
                  IF via = "http" THEN "handler" ELSE "infer")]
    /\ UNCHANGED <<svcVars, apiFrame>>

\* A request that names no voice.
Arrive(t, op, input, via) == ArriveWith(t, op, input, via, "none")

\* A synthesis request with its `voice`, to the route or to the service.
Synthesize(t, input, via, voice) ==
    ArriveWith(t, "synthesize", input, via, voice)

\* POST to the route of `op`.
Request(t, op, input) == Arrive(t, op, input, "http")

\* The service method of `op` called directly.
ServiceCall(t, op, input) == Arrive(t, op, input, "direct")

\* A route handler up to its call of the service method.
HandlerEnter(t) ==
    LET f == tasks[t]
        d == Dispatch(f.op, f.input)
    IN  /\ f.pc = "handler_call"
        /\ MayRun(t)
        /\ tasks' = [tasks EXCEPT ![t] =
              IF d = "none" THEN Calling(f, "infer")
              ELSE Returned(f, HandlerExcept(d))]
        /\ UNCHANGED <<svcVars, apiFrame>>

\* A service method up to its worker-pool call (run_in_executor), or to its
\* return when it does not get there.
InferEnter(t) ==
    LET f == tasks[t]
        b == BeforeBackend(f.op, f.input)
    IN  /\ f.pc = "infer_call"
        /\ MayRun(t)
        /\ tasks' = [tasks EXCEPT ![t] =
              IF b = "run"
              THEN [f EXCEPT !.pc = "infer_run",
                             !.work = ReachesBackend(f.op, f.input),
                             !.used = IF f.op = "synthesize"
                                      THEN SelectedVoice(f.voice) ELSE "none"]
              ELSE Returned(f, b)]
        /\ UNCHANGED <<svcVars, apiFrame>>

\* The worker-pool call of a service method is over.
InferDone(t) ==
    LET f == tasks[t]
    IN  /\ f.pc = "infer_run"
        /\ MayRun(t)
        /\ \E outcome \in {"ok", "throw"} :
             /\ tasks' = [tasks EXCEPT ![t] =
                             Returned(f, AfterBackend(f.op, f.input, outcome))]
             /\ initialized' = AfterInference(f.svc, outcome)
        /\ UNCHANGED <<model, embedding_dimension, apiFrame>>

\* The route handler after the service method returned or raised.
HandlerReturn(t) ==
    LET f == tasks[t]
    IN  /\ f.pc = "handler_ret"
        /\ MayRun(t)
        /\ tasks' = [tasks EXCEPT ![t] = Returned(f, Respond(f.ret))]
        /\ UNCHANGED <<svcVars, apiFrame>>

\* A variant of the health entry without the except clause.
HealthEntryPropagates(s, raised) ==
    IF raised THEN "Raise" ELSE IF is_ready(s) THEN "true" ELSE "false"

\* health_check(): the entry of one registered service, given whether the
\* awaited is_ready() raised: the except clause logs and reports False.
HealthEntry(s, raised) ==
    IF raised THEN "false" ELSE IF is_ready(s) THEN "true" ELSE "false"

\* health_check(): the "services" object of the response, as name-value
\* pairs, when the is_ready() calls of the services in `faults` raise.
HealthResponse(faults) ==
    {<<services[i], HealthEntry(services[i], services[i] \in faults)>> :
        i \in 1..Len(services)}

\* GET /api/health while the application serves.  Nothing in it suspends.
HealthRequest(t, faults) ==
    /\ tasks[Main].pc = "ls_serving"
    /\ tasks[t].pc \in {"idle", "done"}
    /\ MayRun(t)
    /\ faults \subseteq {services[i] : i \in 1..Len(services)}
    /\ \A u \in Callers : tasks[u].op \in {"none", "health", "download"}
    /\ tasks' = [u \in Tasks |->
          IF u = t
          THEN [IdleFrame EXCEPT !.op = "health", !.via = "health", !.pc = "done",
                                 !.ret = "200", !.faults = faults,
                                 !.body = HealthResponse(faults),
                                 !.during = InFlight]
          ELSE IF tasks[u].pc = "init_create"
               THEN [tasks[u] EXCEPT !.probed = TRUE]
               ELSE tasks[u]]
    /\ UNCHANGED <<svcVars, apiFrame>>

\* Startup as lifespan() runs it, alone, before the server takes requests.
StartupStep ==
    \/ LifespanStart
    \/ BulkInstallDone
    \/ LifespanInit
    \/ LifespanInited
    \/ EnsureEnter(Main)
    \/ EnsurePipDone(Main)
    \/ InitializeEnter(Main)
    \/ InitEnsured(Main)
    \/ InitLock(Main)
    \/ InitCreateDone(Main)

ApiStep(t) ==
    \/ HandlerEnter(t)
    \/ InferEnter(t)
    \/ InferDone(t)
    \/ HandlerReturn(t)

\* The application from its start, serving inference and health requests.
ApiNext ==
    \/ StartupStep
    \/ \E t \in Callers, op \in Ops : \E input \in Inputs(op) : Request(t, op, input)
    \/ \E t \in Callers, op \in Ops : \E input \in Inputs(op) : ServiceCall(t, op, input)
    \/ \E t \in Callers : \E faults \in SUBSET Services : HealthRequest(t, faults)
    \/ \E t \in Callers : ApiStep(t)

ApiSpec == Init /\ [][ApiNext]_vars

\* The inference methods that start with the readiness check.
Checked == Ops \ Scoring

\* A task calls an inference method of a service object directly, as it may
\* call initialize() and cleanup(); the callers of one run address the same
\* service object.
CallInference(t, op, input) ==
    /\ tasks[t].pc \in {"idle", "done"}
    /\ MayRun(t)
    /\ calls < MaxCalls
    /\ \A u \in Tasks : tasks[u].op = "none" \/ tasks[u].svc = ServiceOf(op)
    /\ calls' = calls + 1
    /\ tasks' = [tasks EXCEPT ![t] =
          Calling([IdleFrame EXCEPT !.op = op, !.svc = ServiceOf(op),
                                    !.via = "direct", !.input = input,
                                    !.pre = Snapshot(ServiceOf(op))], "infer")]
    /\ UNCHANGED <<svcVars, lock, available, installed_packages, install_lock,
                   importable, constructed, cleaned, appVars>>

\* The public methods of one service object called by concurrent tasks:
\* the installer and initialize() to make it Ready, its inference method,
\* cleanup().
UseNext ==
    \/ \E t \in Callers, s \in Services : CallEnsure(t, s)
    \/ \E t \in Callers, s \in Services : CallInitialize(t, s)
    \/ \E t \in Callers, s \in Services : CallCleanup(t, s)
    \/ \E t \in Callers, op \in Checked : CallInference(t, op, "valid")
    \/ \E t \in Callers : Step(t)
    \/ \E t \in Callers : InferEnter(t)
    \/ \E t \in Callers : InferDone(t)

UseSpec == LiveInit /\ [][UseNext]_vars

\* The application configured for speech synthesis alone.
VoiceInit ==
    /\ Loaded
    /\ enabled = [s \in Services |-> s = "tts"]
    /\ \E b \in BOOLEAN : importable = [p \in Packages |-> b]

\* The application from its start, serving synthesis requests.
VoiceNext ==
    \/ StartupStep
    \/ \E t \in Callers, input \in Inputs("synthesize"),
          via \in {"http", "direct"}, voice \in Voices :
             Synthesize(t, input, via, voice)
    \/ \E t \in Callers : ApiStep(t)

VoiceSpec == VoiceInit /\ [][VoiceNext]_vars

\* The steps of a download request inside the installer and the services.
LoadStep(t) ==
    \/ EnsureEnter(t)
    \/ EnsureAcquire(t)
    \/ EnsurePipDone(t)
    \/ InitializeEnter(t)
    \/ InitEnsured(t)
    \/ InitLock(t)
    \/ InitAcquire(t)
    \/ InitCreateDone(t)

\* The interpreter the application starts in has the packages of the runtime
\* requirements file all in place or none of them (a bundled build, a bare one).
LoadInit ==
    /\ Init
    /\ \E b \in BOOLEAN : importable = [p \in Packages |-> b]

\* The application from its start, serving download requests and the health
\* requests that arrive while a model is being constructed.  No is_ready()
\* raises here.
LoadNext ==
    \/ StartupStep
    \/ \E t \in Callers, s \in Services : RequestDownload(t, s)
    \/ \E t \in Callers : DownloadEnter(t)
    \/ \E t \in Callers : DownloadEnsured(t)
    \/ \E t \in Callers : DownloadInited(t)
    \/ \E t \in Callers : InFlight # {} /\ HealthRequest(t, {})
    \/ \E t \in Callers : LoadStep(t)

LoadSpec == LoadInit /\ [][LoadNext]_vars

\* ------------------------------------------------------ similarity search
\* The embeddings a search is tried with: components 1 and -1, of one and of
\* two dimensions, so that scores tie, differ and have both signs.
Embeddings == {<<1>>, <<1, 1>>, <<1, -1>>, <<-1, -1>>}

Queries == Embeddings \cup {<<>>}

CandidateLists == UNION {[1..n -> Embeddings] : n \in 0..MaxCands}

\* top_k is `Optional[int] = 5` in SimilaritySearchRequest and `int = 5` in
\* find_most_similar: no bound is declared on it.
TopKs == (-1)..(MaxCands + 1)

RECURSIVE Dot(_, _)
\* np.dot of two vectors of one length.
Dot(vec1, vec2) ==
    IF vec1 = <<>> THEN 0
    ELSE Head(vec1) * Head(vec2) + Dot(Tail(vec1), Tail(vec2))

\* _cosine_similarity(), in hundredths: each vector is divided by its norm and
\* the dot product taken; with components of magnitude 1 the two norms
\* multiply to the common length.
CosineSimilarity(vec1, vec2) ==
    IF vec1 = <<>> THEN 0 ELSE (100 * Dot(vec1, vec2)) \div Len(vec1)

\* compute_similarity() raises (np.dot, shapes not aligned) exactly when the
\* two embeddings differ in length.
SimilarityRaises(embedding1, embedding2) == Len(embedding1) # Len(embedding2)

\* The position (from 1) of the first candidate whose length differs from the
\* query's, 0 when there is none: where the dimension loop of the handler and
\* the scoring loop of the service stop.
FirstMismatch(q, cs) ==
    IF \E i \in 1..Len(cs) : SimilarityRaises(q, cs[i])
    THEN CHOOSE i \in 1..Len(cs) :
            /\ SimilarityRaises(q, cs[i])
            /\ \A j \in 1..(i - 1) : ~SimilarityRaises(q, cs[j])
    ELSE 0

\* The class of a search payload as the handler's checks see it.
Classify(q, cs) ==
    IF q = <<>> \/ cs = <<>> THEN "empty"
    ELSE IF FirstMismatch(q, cs) # 0 THEN "mismatch"
    ELSE "valid"

\* Where a list.sort(key=similarity, reverse=True) puts x among the already
\* sorted entries: behind every entry that scores at least as high, the sort
\* being stable.
InsertDescending(x, sorted) ==
    LET ahead == {i \in 1..Len(sorted) : sorted[i].similarity >= x.similarity}
        n == Cardinality(ahead)
    IN  SubSeq(sorted, 1, n) \o <<x>> \o SubSeq(sorted, n + 1, Len(sorted))

RECURSIVE SortDescending(_)
SortDescending(entries) ==
    IF entries = <<>> THEN <<>>
    ELSE InsertDescending(entries[Len(entries)],
                          SortDescending(SubSeq(entries, 1, Len(entries) - 1)))

\* entries[:k] as Python takes it: a negative stop counts from the end.
Slice(entries, k) ==
    LET n == Len(entries)
        stop == IF k < 0 THEN (IF n + k < 0 THEN 0 ELSE n + k)
                ELSE IF k > n THEN n ELSE k
    IN  SubSeq(entries, 1, stop)

\* find_most_similar() on candidates it can score: one entry per candidate
\* with its index from 0, sorted, sliced.
find_most_similar(q, cs, k) ==
    Slice(SortDescending([i \in 1..Len(cs) |->
                            [index |-> i - 1,
                             similarity |-> CosineSimilarity(q, cs[i])]]), k)

\* A variant in which the service scores up to the offending candidate, as
\* find_most_similar() does when it is handed a mismatching list.
ScoredWithoutCheck(d, q, cs) ==
    IF d \in {"none", "400"} /\ Classify(q, cs) # "empty"
    THEN IF FirstMismatch(q, cs) = 0 THEN 0..(Len(cs) - 1)
         ELSE 0..(FirstMismatch(q, cs) - 2)
    ELSE {}

\* The candidates (indices from 0) that compute_similarity() has scored when
\* the search is over, `d` being what the handler's checks raised: none when
\* the handler raised, all of them on a list that can be scored, and those
\* before the first mismatching one when the service is handed such a list.
Scored(d, q, cs) ==
    IF d # "none" \/ cs = <<>> THEN {}
    ELSE IF FirstMismatch(q, cs) = 0 THEN 0..(Len(cs) - 1)
    ELSE 0..(FirstMismatch(q, cs) - 2)

\* The candidate index in the detail of the error response.  The dimension
\* loop raises HTTPException(400, "Candidate embedding {i} has different
\* dimension than query") for the first offending i; the except clause puts
\* str(e) of it, "400: " and that text, into the detail of its 500.  What the
\* service raises (numpy's shape message) names no candidate.
ErrorNames(d, q, cs) ==
    IF d = "400" /\ Classify(q, cs) = "mismatch"
    THEN {FirstMismatch(q, cs) - 1}
    ELSE {}

\* What find_most_similar() hands back on the payload: "Empty" without
\* candidates, an exception from the first candidate it cannot score.
SearchReturn(q, cs) ==
    IF cs = <<>> THEN "Empty"
    ELSE IF FirstMismatch(q, cs) # 0 THEN "Exception"
    ELSE "Result"

\* One similarity search from its arrival to its answer, through the route
\* (similarity_search) or on the service (find_most_similar): the one request
\* of the run.
Search(t, via, q, cs, k) ==
    LET d == IF via = "http" THEN Dispatch("search", Classify(q, cs)) ELSE "none"
        v == SearchReturn(q, cs)
    IN  /\ tasks[Main].pc = "ls_serving"
        /\ \A u \in Callers : tasks[u].pc = "idle"
        /\ MayRun(t)
        /\ enabled["embeddings"]
        /\ tasks' = [tasks EXCEPT ![t] =
              [IdleFrame EXCEPT
                 !.op = "search", !.svc = "embeddings", !.pc = "done",
                 !.via = via, !.input = Classify(q, cs),
                 !.pre = Snapshot("embeddings"),
                 !.query = q, !.cands = cs, !.top_k = k,
                 !.ret = IF d # "none" THEN HandlerExcept(d)
                         ELSE IF via = "http" THEN Respond(v) ELSE v,
                 !.results = IF d = "none" /\ v = "Result"
                             THEN find_most_similar(q, cs, k) ELSE <<>>,
                 !.scored = Scored(d, q, cs),
                 !.named = ErrorNames(d, q, cs)]]
        /\ UNCHANGED <<svcVars, apiFrame>>

\* The application with its default configuration, in an interpreter that
\* has the packages of the runtime requirements file all in place or none.
SearchInit ==
    /\ Init
    /\ \E b \in BOOLEAN : importable = [p \in Packages |-> b]

\* The application from its start, answering similarity searches.
SearchNext ==
    \/ StartupStep
    \/ /\ tasks[Main].pc = "ls_serving"
       /\ \A u \in Callers : tasks[u].pc = "idle"
       /\ \E t \in Callers, via \in {"http", "direct"}, q \in Queries,
             cs \in CandidateLists, k \in TopKs : Search(t, via, q, cs, k)

SearchSpec == SearchInit /\ [][SearchNext]_vars

\* ------------------------------------------------------------ observations
\* The callers whose model construction for service s is on the worker pool.
Constructing(s) ==
    {t \in Tasks : tasks[t].pc = "init_create" /\ tasks[t].svc = s}

\* The callers whose install subprocess for package p is running.
Installing(p) ==
    {t \in Tasks : tasks[t].pc = "ensure_pip" /\ Package(tasks[t].svc) = p}

\* This step is the return of t's call of function fn.
Returns(t, fn) ==
    /\ Len(tasks[t].ctx) > 0
    /\ Current(t) = fn
    /\ Len(tasks'[t].ctx) < Len(tasks[t].ctx)

\* The state cleanup() leaves a service in.
CleanState == [model |-> NoModel, initialized |-> FALSE, dim |-> "None"]

\* ------------------------------------------------------------------ claims

\* C1 (as stated): among concurrent initialize() calls on one service, no
\* caller starts a model construction after another caller's construction
\* was in flight during its own call: there is one attempt, not a second one.
C1_SingleAttempt ==
    \A t \in Tasks : tasks[t].pc = "init_create" => ~tasks[t].seen

\* C1 (amended): a construction is only ever in flight for a service that is
\* not initialized, one at a time, so at most one attempt succeeds and none
\* follows it; after a failed attempt the next caller makes its own.  Every
\* caller returns True exactly when the service is Ready as it returns.
C1_AttemptOnlyWhileUninitialized ==
    /\ [](\A t \in Tasks : tasks[t].pc = "init_create" =>
              /\ ~initialized[tasks[t].svc]
              /\ Constructing(tasks[t].svc) = {t})
    /\ [][\A t \in Tasks : Returns(t, "initialize") =>
              (tasks'[t].ret = "True" <=> is_ready(tasks[t].svc)')]_vars

\* C1 witness: a caller that saw another caller's attempt fail is running
\* its own attempt.
C1_RetryAfterFailure ==
    \E t, u \in Tasks :
        /\ tasks[t].pc = "init_create" /\ tasks[t].seen
        /\ tasks[u].pc = "done" /\ tasks[u].op = "initialize"
        /\ tasks[u].svc = tasks[t].svc /\ tasks[u].tried /\ tasks[u].ret = "False"

\* C2: at no time are two model constructions for the same service in
\* flight, whether initialize() was called by lifespan() or by download
\* requests.
C2_NoOverlappingConstruction ==
    \A s \in Services : Cardinality(Constructing(s)) <= 1

\* C2 witness: one download request's construction is in flight while
\* another request's initialize() of the same service waits for the lock.
C2_SecondCallerWaits ==
    \E t, u \in Callers :
        /\ tasks[t].pc = "init_create" /\ tasks[u].pc = "init_wait"
        /\ tasks[t].svc = tasks[u].svc
        /\ tasks[t].op = "download" /\ tasks[u].op = "download"

\* C3: at most one install subprocess for a package is in flight at any time.
C3_OneInstallPerPackage ==
    \A p \in Packages : Cardinality(Installing(p)) <= 1

\* C3 witness: an install subprocess is running while another caller of
\* ensure_package_installed for the same package waits for the install lock.
C3_SecondInstallerWaits ==
    \E t, u \in Tasks :
        /\ tasks[t].pc = "ensure_pip" /\ tasks[u].pc = "ensure_wait"
        /\ tasks[t].svc = tasks[u].svc

\* C4: is_ready() is false at the start and turns true only as an
\* initialize() returns True; it is true as any initialize() returns True,
\* and false as any cleanup() returns.
C4_ReadyLifecycle ==
    /\ \A s \in Services : ~is_ready(s)
    /\ [][\A s \in Services : (~is_ready(s) /\ is_ready(s)') =>
              \E t \in Tasks : /\ tasks[t].svc = s
                               /\ Returns(t, "initialize")
                               /\ tasks'[t].ret = "True"]_vars
    /\ [][\A t \in Tasks :
              /\ (Returns(t, "initialize") /\ tasks'[t].ret = "True")
                    => is_ready(tasks[t].svc)'
              /\ Returns(t, "cleanup") => ~is_ready(tasks[t].svc)']_vars

\* C4 witness: cleanup() has returned on a service that was Ready when it ran.
C4_ReadyThenCleaned ==
    \E t \in Tasks :
        /\ tasks[t].pc = "done" /\ tasks[t].op = "cleanup"
        /\ tasks[t].pre.ready /\ ~is_ready(tasks[t].svc)

\* C5: when initialize() failed at startup with the dependency missing, the
\* service is not ready and reports not_initialized; and when a later
\* download request for it has installed the package and run initialize(),
\* whose construction did not fail on a loaded backend, the service is Ready.
C5_DownloadRecovers ==
    /\ (tasks[Main].pc = "ls_inited" /\ tasks[Main].ret = "False") =>
          /\ ~is_ready(tasks[Main].svc)
          /\ get_model_info(tasks[Main].svc) = "not_initialized"
    /\ \A t \in Callers :
          (/\ tasks[t].pc = "dl_inited"
           /\ startup[tasks[t].svc] = "dependency"
           /\ tasks[t].pip
           /\ ~(tasks[t].tried /\ ConstructorPresent(tasks[t].svc)))
             => is_ready(tasks[t].svc)

\* C6: in every state of every service the model handle is set exactly when
\* the initialized flag is.
C6_HandleIffInitialized ==
    \A s \in Services : (model[s] # NoModel) <=> initialized[s]

\* C7: an initialize() that found the service Ready returns True without a
\* construction attempt and leaves the handle and the flag as they were.
C7_ReadyInitializeIsNoop ==
    [][\A t \in Tasks :
          (Returns(t, "initialize") /\ tasks'[t].pre.ready) =>
              /\ tasks'[t].ret = "True"
              /\ ~tasks'[t].tried
              /\ model'[tasks[t].svc] = tasks'[t].pre.model
              /\ is_ready(tasks[t].svc)'
              /\ constructed' = constructed]_vars

\* C7 witness: an initialize() that found the service Ready has returned True.
C7_CalledWhileReady ==
    \E t \in Tasks :
        /\ tasks[t].pc = "done" /\ tasks[t].op = "initialize"
        /\ tasks[t].pre.ready /\ tasks[t].ret = "True"

\* C8: every cleanup() leaves the service in the one clean state and raises
\* nothing, so a second cleanup() ends in the state the first ended in; a
\* cleanup() that found no handle changes nothing.
C8_CleanupIdempotent ==
    [][\A t \in Tasks : Returns(t, "cleanup") =>
          /\ ServiceState(tasks[t].svc)' = CleanState
          /\ tasks'[t].ret = "None"
          /\ (cleaned[tasks[t].svc] /\ ServiceState(tasks[t].svc) = CleanState)
                => ServiceState(tasks[t].svc)' = ServiceState(tasks[t].svc)]_vars

\* C8 witness: a cleanup() called on a service already cleaned up has returned.
C8_SecondCleanup ==
    \E t \in Tasks :
        /\ tasks[t].pc = "done" /\ tasks[t].op = "cleanup"
        /\ tasks[t].pre.cleaned /\ tasks[t].pre.model = NoModel
        /\ ServiceState(tasks[t].svc) = CleanState

\* C9 (as stated): once cleanup() has run on a service, no step changes the
\* service's state.
C9_CleanedUpIsTerminal ==
    [][\A s \in Services :
          cleaned[s] => ServiceState(s)' = ServiceState(s)]_vars

\* C9 (amended): cleanup() leaves the service not Ready with no handle, and
\* from then on the service's state changes only as an initialize() finishes
\* a construction or as a cleanup() runs.
C9_CleanedUntilInitialize ==
    [][/\ \A t \in Tasks : Returns(t, "cleanup") =>
              ~is_ready(tasks[t].svc)' /\ model'[tasks[t].svc] = NoModel
       /\ \A s \in Services :
              (cleaned[s] /\ ServiceState(s)' # ServiceState(s)) =>
                  \E t \in Tasks :
                      /\ tasks[t].svc = s
                      /\ \/ tasks[t].pc = "init_create"
                         \/ Returns(t, "cleanup")]_vars

\* C9 witness: a service that was cleaned up is Ready again.
C9_ReadyAfterCleanup ==
    \E s \in Services : cleaned[s] /\ is_ready(s)

\* C10: initialize() returns True or False and nothing else, and when it
\* returns False the service is not Ready.
C10_InitializeNeverRaises ==
    [][\A t \in Tasks : Returns(t, "initialize") =>
          /\ tasks'[t].ret \in {"True", "False"}
          /\ tasks'[t].ret = "False" => ~is_ready(tasks[t].svc)']_vars

\* C10 witness: initialize() calls have returned False after a failed
\* dependency check and after a construction that threw.
C10_FailedBothWays ==
    \E t, u \in Tasks :
        /\ tasks[t].pc = "done" /\ tasks[t].op = "initialize"
        /\ tasks[t].ret = "False" /\ tasks[t].tried
        /\ tasks[u].pc = "done" /\ tasks[u].op = "initialize"
        /\ tasks[u].ret = "False" /\ ~tasks[u].tried

\* C11: when initialize() gets the answer of its dependency check while the
\* package imports, the answer is True: the service goes on to construct its
\* model (and, by C1, returns True and is Ready when that succeeds).
C11_ImportableDependencyPasses ==
    \A t \in Tasks :
        (tasks[t].pc = "init_ensured" /\ importable[Package(tasks[t].svc)])
            => tasks[t].ret = "True"

\* C12: a service method of a core operation called on a service that is not
\* Ready raises the not-initialized error and does no backend or scoring work.
C12_NotReadyCallRejected ==
    \A t \in Callers :
        (tasks[t].via = "direct" /\ ~tasks[t].pre.ready) =>
            /\ ~tasks[t].work
            /\ tasks[t].pc = "done" => tasks[t].ret = "RuntimeError"

\* C13: a request for a core operation that arrives while the service's
\* is_ready() is false is answered with status 503.
C13_NotReadyIs503 ==
    \A t \in Callers :
        (tasks[t].via = "http" /\ tasks[t].pc = "done" /\ ~tasks[t].pre.ready)
            => tasks[t].ret = "503"

\* C14: a request with an invalid input (empty text or audio, a missing
\* embedding, a dimension mismatch) to a Ready service is answered with
\* status 400.
C14_InvalidIs400 ==
    \A t \in Callers :
        (/\ tasks[t].via = "http" /\ tasks[t].pc = "done"
         /\ tasks[t].pre.ready /\ tasks[t].input # "valid")
            => tasks[t].ret = "400"

\* C15: when the backend call of a request to a Ready service fails, the
\* request is answered with status 500 and the service keeps its state: it
\* is Ready with the handle it had; no inference changes the service.
C15_InferenceFailureKeepsService ==
    /\ [](\A t \in Callers :
            (/\ tasks[t].via = "http" /\ tasks[t].work
             /\ tasks[t].pc \in {"handler_ret", "done"}
             /\ tasks[t].ret \notin {"Result", "200"})
               => /\ is_ready(tasks[t].svc)
                  /\ model[tasks[t].svc] = tasks[t].pre.model
                  /\ tasks[t].pc = "done" => tasks[t].ret = "500")
    /\ [][\A t \in Callers : tasks[t].pc = "infer_run" =>
            ServiceState(tasks[t].svc)' = ServiceState(tasks[t].svc)]_vars

\* C15 witness: one request to a Ready service failed in the backend and was
\* answered 500, and another request to the same service was served.
C15_ServedAfterFailure ==
    \E t, u \in Callers :
        /\ tasks[t].via = "http" /\ tasks[t].pc = "done"
        /\ tasks[t].work /\ tasks[t].ret = "500"
        /\ tasks[u].via = "http" /\ tasks[u].pc = "done"
        /\ tasks[u].svc = tasks[t].svc /\ tasks[u].ret = "200"

\* The position of a service in the startup order.
OrderIndex(s) == CHOOSE i \in 1..Len(Order) : Order[i] = s

\* C16: startup goes on after the bulk install and after every initialize(),
\* whatever they returned, until the application serves; and while it serves,
\* every service whose initialize() succeeded at startup is registered and
\* Ready.
C16_StartupSurvivesFailures ==
    /\ [](tasks[Main].pc = "ls_serving" =>
            \A s \in Services : startup[s] = "ready" => Registered(s) /\ is_ready(s))
    /\ [][/\ tasks[Main].pc = "ls_inited" => tasks'[Main].pc = "ls_init"
          /\ tasks[Main].pc = "ls_bulk" => tasks'[Main].pc \in {"ls_bulk", "ls_init"}
          /\ (tasks[Main].pc = "ls_init" /\ tasks[Main].idx > Len(Order))
                => tasks'[Main].pc = "ls_serving"]_vars

\* C16 witness: the application serves after the initialize() of one service
\* failed at startup, with a service later in the order registered and Ready.
C16_DegradedStartup ==
    \E s, u \in Services :
        /\ tasks[Main].pc = "ls_serving"
        /\ startup[s] \in {"dependency", "check", "construction"}
        /\ OrderIndex(s) < OrderIndex(u)
        /\ startup[u] = "ready" /\ Registered(u) /\ is_ready(u)

\* C17: shutdown ends without an error and with the registry empty, after a
\* cleanup() of every registered service: each one is cleaned up and not
\* Ready, also when the cleanup() of an earlier one raised.
C17_ShutdownCleansAll ==
    /\ [](tasks[Main].pc = "done" =>
            /\ services = <<>>
            /\ tasks[Main].ret = "None"
            /\ \A s \in Services :
                  startup[s] = "ready" => cleaned[s] /\ ~is_ready(s))
    /\ [][(tasks[Main].pc = "ls_cleanup" /\ tasks'[Main].pc = "done") =>
            /\ services' = <<>>
            /\ \A i \in 1..Len(services) :
                  cleaned[services[i]] /\ ~is_ready(services[i])]_vars

\* C17 witness: shutdown has finished after the cleanup() of one registered
\* service raised and a service registered after it was cleaned up.
C17_CleanedAfterFailure ==
    \E s, u \in Services :
        /\ tasks[Main].pc = "done" /\ s \in tasks[Main].faults
        /\ startup[s] = "ready" /\ startup[u] = "ready"
        /\ OrderIndex(s) < OrderIndex(u)
        /\ cleaned[u] /\ ~is_ready(u)

\* C18: a health response always comes (status 200) and holds exactly one
\* boolean per registered service and nothing else: false for a service whose
\* is_ready() call raised, is_ready() for every other one.
C18_HealthNeverThrows ==
    \A t \in Callers :
        (tasks[t].op = "health" /\ tasks[t].pc = "done") =>
            /\ tasks[t].ret = "200"
            /\ \A e \in tasks[t].body :
                  Registered(e[1]) /\ e[2] \in {"true", "false"}
            /\ \A i \in 1..Len(services) :
                  LET s == services[i]
                  IN  /\ Cardinality({e \in tasks[t].body : e[1] = s}) = 1
                      /\ <<s, IF s \notin tasks[t].faults /\ is_ready(s)
                              THEN "true" ELSE "false">> \in tasks[t].body

\* C18 witness: a health response in which the service whose is_ready()
\* raised is reported false and another registered service is reported true.
C18_FaultyServiceReportedDown ==
    \E t \in Callers, s, u \in Services :
        /\ tasks[t].op = "health" /\ tasks[t].pc = "done"
        /\ s \in tasks[t].faults /\ is_ready(s)
        /\ <<s, "false">> \in tasks[t].body
        /\ u # s /\ <<u, "true">> \in tasks[t].body

\* C19: a capability disabled by configuration is never in the registry and
\* never in the health output.
C19_DisabledNeverRegistered ==
    \A s \in Services :
        ~enabled[s] => ~Registered(s) /\ s \notin DOMAIN health_check

\* C19 witness: a download request naming a disabled capability has been
\* answered with success.
C19_DownloadOfDisabled ==
    \E t \in Callers :
        /\ tasks[t].op = "download" /\ tasks[t].pc = "done"
        /\ ~enabled[tasks[t].svc] /\ tasks[t].ret = "True"

\* C20: at most one install subprocess, single-package or bulk, is in flight
\* at any time.
C20_OneInstallProcessWide ==
    Cardinality({t \in Tasks : tasks[t].pc \in {"ensure_pip", "ls_bulk"}}) <= 1

\* C20 witness: the install of one package is in flight while a request for
\* another package waits for the install lock.
C20_OtherPackageWaits ==
    \E t, u \in Tasks :
        /\ tasks[t].pc = "ensure_pip" /\ tasks[u].pc = "ensure_wait"
        /\ Package(tasks[t].svc) # Package(tasks[u].svc)

\* This step is t's first run of the import_test in a call of
\* ensure_package_installed: it has taken install_lock and found the package
\* not marked.
RanImportTest(t) ==
    /\ tasks[t].pc \in {"ensure_call", "ensure_wait"}
    /\ tasks'[t].tests = 1

\* This step is the return of _install_package to t with exit status rc.
InstallExited(t, rc) ==
    /\ tasks[t].pc = "ensure_pip"
    /\ tasks'[t].rc = rc

\* The result of the import_test of t's call once this step is over.
TestAfter(t) == ImportResult(Caller(t), tasks[t].svc, importable')

\* C21: when the install subprocess exits zero and the import test, run
\* again, fails, ensure_package_installed returns False and the package is
\* not marked installed.
C21_InstalledButNotImportable ==
    [][\A t \in Tasks :
          (InstallExited(t, "zero") /\ TestAfter(t) # "ok") =>
              /\ Returns(t, "ensure")
              /\ tasks'[t].ret = "False"
              /\ tasks'[t].tests = 2
              /\ ~installed_packages'[Package(tasks[t].svc)]]_vars

\* C21 witness: a call has returned False after its install exited zero and
\* its second import test failed; the package is not marked.
C21_ZeroExitImportFails ==
    \E t \in Tasks :
        /\ tasks[t].pc = "done" /\ tasks[t].op = "ensure"
        /\ tasks[t].rc = "zero" /\ tasks[t].tests = 2
        /\ tasks[t].ret = "False"
        /\ ~installed_packages[Package(tasks[t].svc)]

\* C22: when the install subprocess exits nonzero or cannot be spawned,
\* ensure_package_installed returns False, does not run the import test
\* again and leaves the installed map as it was.
C22_FailedInstallReturnsFalse ==
    [][\A t \in Tasks :
          InstallExited(t, "nonzero") =>
              /\ Returns(t, "ensure")
              /\ tasks'[t].ret = "False"
              /\ tasks'[t].tests = tasks[t].tests
              /\ installed_packages' = installed_packages]_vars

\* C22 witness: a call has returned False after its install exited nonzero,
\* having run the import test once.
C22_NonzeroExit ==
    \E t \in Tasks :
        /\ tasks[t].pc = "done" /\ tasks[t].op = "ensure"
        /\ tasks[t].rc = "nonzero" /\ tasks[t].tests = 1
        /\ tasks[t].ret = "False"
        /\ ~installed_packages[Package(tasks[t].svc)]
\* The result of the import_test of t's call as this step starts.
TestBefore(t) == ImportResult(Caller(t), tasks[t].svc, importable)

\* This step is the one in which t's call of ensure_package_installed gets
\* past the fast path and install_lock.
PassesLock(t) ==
    /\ tasks[t].pc \in {"ensure_call", "ensure_wait"}
    /\ tasks'[t].pc \notin {"ensure_call", "ensure_wait"}
    /\ ~installed_packages[Package(tasks[t].svc)]

\* C23: a call of ensure_package_installed that returns False leaves the
\* package unmarked, and no failure is remembered: every call that finds the
\* package unmarked runs the import test itself, goes on to the install when
\* the test raised ImportError, and returns True (marking the package)
\* exactly when the test passed at once or passed after an install that
\* exited zero.
C23_FailureNotCached ==
    [][\A t \in Tasks :
          /\ (Returns(t, "ensure") /\ tasks'[t].ret = "False")
                => ~installed_packages'[Package(tasks[t].svc)]
          /\ PassesLock(t) =>
                /\ tasks'[t].tests = 1
                /\ TestBefore(t) = "ImportError" => tasks'[t].pc = "ensure_pip"
                /\ Returns(t, "ensure") => (tasks'[t].ret = "True" <=> TestBefore(t) = "ok")
          /\ (tasks[t].pc = "ensure_pip" /\ tasks'[t].pc # "ensure_pip") =>
                /\ Returns(t, "ensure")
                /\ tasks'[t].ret = "True" <=>
                      (tasks'[t].rc = "zero" /\ TestAfter(t) = "ok")
                /\ tasks'[t].ret = "True" =>
                      installed_packages'[Package(tasks[t].svc)]]_vars

\* C23 witness: a call made after one that returned False for the same
\* package has run the import test and the install itself and returned True.
C23_RetrySucceeds ==
    \E t \in Tasks :
        /\ tasks[t].pc = "done" /\ tasks[t].op = "ensure" /\ tasks[t].retry
        /\ tasks[t].tests = 2 /\ tasks[t].rc = "zero" /\ tasks[t].ret = "True"
        /\ installed_packages[Package(tasks[t].svc)]

\* C24: when the package is not marked and the import test passes,
\* ensure_package_installed marks the package and returns True, and no
\* install subprocess is spawned.
C24_ImportablePackageMarked ==
    [][\A t \in Tasks :
          (RanImportTest(t) /\ TestBefore(t) = "ok") =>
              /\ Returns(t, "ensure")
              /\ tasks'[t].ret = "True"
              /\ installed_packages'[Package(tasks[t].svc)]
              /\ tasks'[t].rc = "none"
              /\ tasks'[t].pc # "ensure_pip"]_vars

\* C24 witness: a call has returned True after taking the lock and running
\* the import test once, without an install; the package is marked.
C24_MarkedWithoutInstall ==
    \E t \in Tasks :
        /\ tasks[t].pc = "done" /\ tasks[t].op = "ensure"
        /\ tasks[t].locked /\ tasks[t].tests = 1 /\ tasks[t].rc = "none"
        /\ tasks[t].ret = "True"
        /\ installed_packages[Package(tasks[t].svc)]

\* C25: when the package is not marked and the import test does not pass,
\* however it fails, ensure_package_installed spawns the install.
C25_AnyTestFailureInstalls ==
    [][\A t \in Tasks :
          (RanImportTest(t) /\ TestBefore(t) # "ok") =>
              tasks'[t].pc = "ensure_pip"]_vars

\* C26: ensure_package_installed for a package marked installed returns True
\* at once: it does not touch install_lock, whoever holds it, and runs
\* neither the import test nor an install.
C26_FastPathTakesNoLock ==
    [][\A t \in Tasks :
          (tasks[t].pc = "ensure_call" /\ installed_packages[Package(tasks[t].svc)]) =>
              /\ Returns(t, "ensure")
              /\ tasks'[t].ret = "True"
              /\ ~tasks'[t].locked /\ tasks'[t].tests = 0 /\ tasks'[t].rc = "none"
              /\ install_lock' = install_lock
              /\ installed_packages' = installed_packages]_vars

\* C26 witness: a download request's call for a marked package has returned
\* True, without the lock, while another request's install holds the lock.
C26_ReturnsDuringInstall ==
    \E t, u \in Callers :
        /\ tasks[u].pc = "ensure_pip" /\ install_lock = {u}
        /\ tasks[t].pc = "dl_ensured" /\ tasks[t].ret = "True"
        /\ ~tasks[t].locked /\ tasks[t].tests = 0
\* C27: is_ready() returns in the step that calls it, in every state and
\* whoever holds the service lock, and it is False for as long as an
\* initialize() holds the lock with its model construction in flight.
C27_ReadyReadWhileInitializing ==
    /\ [](\A s \in Services : lock[s] # {} => ~is_ready(s))
    /\ [](\A t \in Tasks : (tasks[t].op = "is_ready" /\ tasks[t].pc = "done") =>
              /\ tasks[t].ret = (IF tasks[t].pre.ready THEN "True" ELSE "False")
              /\ tasks[t].seen => tasks[t].ret = "False")
    /\ [][\A t \in Tasks :
              (tasks'[t].op = "is_ready" /\ tasks'[t] # tasks[t]) =>
                  /\ tasks'[t].pc = "done"
                  /\ tasks'[t].ret \in {"True", "False"}
                  /\ lock' = lock]_vars

\* C27 witness: is_ready() has returned False to a caller while another
\* caller's initialize() held the lock of the service with a construction
\* in flight, and it still does.
C27_ReadDuringConstruction ==
    \E t, u \in Tasks :
        /\ tasks[t].op = "is_ready" /\ tasks[t].pc = "done"
        /\ tasks[t].seen /\ tasks[t].ret = "False"
        /\ tasks[u].pc = "init_create" /\ tasks[u].svc = tasks[t].svc
        /\ lock[tasks[t].svc] = {u}

\* C28: get_model_info() raises nothing and its status is "ready" exactly
\* when is_ready() is true and "not_initialized" otherwise, in every state
\* and for every call made.
C28_InfoAgreesWithReady ==
    /\ \A s \in Services :
          /\ get_model_info(s) \in {"ready", "not_initialized"}
          /\ get_model_info(s) = "ready" <=> is_ready(s)
    /\ \A t \in Tasks : (tasks[t].op = "get_model_info" /\ tasks[t].pc = "done") =>
          tasks[t].ret = (IF tasks[t].pre.ready THEN "ready" ELSE "not_initialized")

\* C28 witness: get_model_info() has answered "not_initialized" for a service
\* that holds a handle but is not initialized (the model was constructed and
\* the read of its metadata failed).
C28_InfoOfHalfInitialized ==
    \E t \in Tasks :
        /\ tasks[t].op = "get_model_info" /\ tasks[t].pc = "done"
        /\ tasks[t].pre.model # NoModel /\ ~tasks[t].pre.ready
        /\ tasks[t].ret = "not_initialized"
\* Task t is inside a call.
Busy(t) == tasks[t].pc \notin {"idle", "done"}

\* C29: every call of initialize(), cleanup() and ensure_package_installed()
\* that has started returns, given that installs and worker-pool calls end:
\* install_lock is held only by a caller whose install is running, a service
\* lock only by a caller whose construction is running, a caller that has
\* returned holds nothing, and a caller holding one lock waits for no other.
C29_EveryCallReturns ==
    /\ [](\A t \in Tasks :
            /\ t \in install_lock => tasks[t].pc = "ensure_pip"
            /\ \A s \in Services :
                  t \in lock[s] => (tasks[t].pc = "init_create" /\ tasks[t].svc = s))
    /\ \A t \in Callers : Busy(t) ~> ~Busy(t)

\* C29 witness: a caller of initialize() that found another caller's
\* construction in flight, and a caller that took the install lock and ran an
\* install, have both returned, and every lock is free.
C29_ReturnedAfterContention ==
    \E t, u \in Callers :
        /\ tasks[t].op = "initialize" /\ tasks[t].pc = "done" /\ tasks[t].seen
        /\ tasks[u].pc = "done" /\ tasks[u].locked /\ tasks[u].rc # "none"
        /\ install_lock = {}
        /\ \A s \in Services : lock[s] = {}
\* C30: a caller whose model construction is in flight holds the lock of its
\* own service and nothing else, so no other service's initialize() and no
\* installer call waits for it; and a health request is answered in the step
\* that makes it, constructions in flight or not.
C30_ConstructionBlocksNobody ==
    /\ [](\A u \in Tasks : tasks[u].pc = "init_create" =>
              /\ u \notin install_lock
              /\ \A s \in Services \ {tasks[u].svc} : u \notin lock[s]
              /\ \A t \in Tasks :
                    (tasks[t].pc = "init_wait" /\ tasks[t].svc # tasks[u].svc)
                        => lock[tasks[t].svc] # {u}
              /\ \A t \in Tasks : tasks[t].pc = "ensure_wait" => install_lock # {u})
    /\ [][\A t \in Callers :
              (tasks'[t].op = "health" /\ tasks'[t] # tasks[t]) =>
                  /\ tasks'[t].pc = "done" /\ tasks'[t].ret = "200"
                  /\ tasks'[t].during = InFlight
                  /\ lock' = lock]_vars

\* C30 witness: while one download request's construction is still in flight,
\* a health request has been answered and a download request for another
\* service, which arrived during that construction, has constructed its
\* model and left its service Ready.
C30_ServedDuringConstruction ==
    \E t, u \in Callers :
        /\ tasks[u].pc = "init_create" /\ tasks[u].probed
        /\ tasks[t].op = "download" /\ tasks[t].pc = "done"
        /\ tasks[t].svc # tasks[u].svc /\ tasks[u].svc \in tasks[t].during
        /\ tasks[t].tried /\ tasks[t].ret = "True"
        /\ is_ready(tasks[t].svc) /\ Registered(tasks[t].svc)

\* A search by caller t has been answered with results.
Answered(t) ==
    /\ tasks[t].op = "search" /\ tasks[t].pc = "done"
    /\ tasks[t].ret \in {"200", "Result"}

\* C31: for every query, every candidate list and every top_k value k, a
\* search that is answered returns at most k results, sorted by descending
\* similarity, each with an index in [0, len(candidates)).
C31_SearchResultShape ==
    \A t \in Callers : Answered(t) =>
        LET r == tasks[t].results
        IN  /\ Len(r) <= tasks[t].top_k
            /\ \A i \in 1..(Len(r) - 1) : r[i].similarity >= r[i + 1].similarity
            /\ \A i \in 1..Len(r) :
                  r[i].index >= 0 /\ r[i].index < Len(tasks[t].cands)

C33_BlankTextNeverEmbedded ==
    \A t \in Callers :
        (tasks[t].op = "embed" /\ tasks[t].input = "empty") =>
            /\ tasks[t].pc # "infer_run"
            /\ ~tasks[t].work
            /\ tasks[t].pc = "done" =>
                  /\ tasks[t].via = "http" => tasks[t].ret \in {"500", "503", "400"}
                  /\ tasks[t].via = "direct" => tasks[t].ret \in {"None", "RuntimeError"}

\* C33 witness: on a Ready embeddings service a blank text has been refused
\* by the route and generate_embedding() called directly has returned None
\* for another.
C33_BlankRefusedOnReady ==
    \E t, u \in Callers :
        /\ tasks[t].op = "embed" /\ tasks[t].input = "empty"
        /\ tasks[t].via = "http" /\ tasks[t].pc = "done"
        /\ tasks[t].pre.ready /\ tasks[t].ret = "500"
        /\ tasks[u].op = "embed" /\ tasks[u].input = "empty"
        /\ tasks[u].via = "direct" /\ tasks[u].pc = "done"
        /\ tasks[u].pre.ready /\ tasks[u].ret = "None"
        /\ is_ready("embeddings")

\* C34: synthesize on a Ready TTS service with a voice that is not in the
\* available-voice list goes on to the worker pool with the configured
\* default voice: a text that is not blank reaches the backend, which is not
\* handed any other voice, and the call is not refused before that.
C34_UnknownVoiceFallsBack ==
    \A t \in Callers :
        (/\ tasks[t].op = "synthesize" /\ tasks[t].pre.ready
         /\ tasks[t].voice \notin available_voices \cup {"none"})
        => /\ tasks[t].pc = "infer_run" => tasks[t].used = tts_voice
           /\ tasks[t].work => tasks[t].used = tts_voice
           /\ (tasks[t].pc = "done" /\ tasks[t].input = "valid") =>
                 /\ tasks[t].work
                 /\ tasks[t].ret \in {"200", "500", "Result", "None"}

\* C34 witness: a synthesis request for a voice outside the list has been
\* answered 200 by a Ready service, the backend having run with the
\* configured default voice.
C34_SynthesizedWithDefault ==
    \E t \in Callers :
        /\ tasks[t].op = "synthesize" /\ tasks[t].pre.ready
        /\ tasks[t].via = "http" /\ tasks[t].pc = "done"
        /\ tasks[t].voice = "xx_nobody"
        /\ tasks[t].work /\ tasks[t].used = "af_bella"
        /\ tasks[t].ret = "200"

\* Task t holds install_lock in the course of the step: it held it before, or
\* the step is the one in which its ensure_package_installed takes it.
HeldThrough(t) ==
    \/ t \in install_lock
    \/ tasks[t].pc \in {"ensure_call", "ensure_wait"} /\ tasks'[t].locked

\* C35: every mutation of the process-wide package records (the installed
\* map and the per-capability downloading flags) happens while the mutating
\* task holds the install lock.
C35_RecordsMutatedUnderLock ==
    [][(installed_packages' # installed_packages \/ downloading' # downloading) =>
          \E t \in Tasks : tasks'[t] # tasks[t] /\ HeldThrough(t)]_vars

\* The download request of task t for capability s is inside its call of
\* ensure_package_installed.
Attempting(t, s) ==
    /\ tasks[t].op = "download" /\ tasks[t].svc = s
    /\ tasks[t].pc \in {"ensure_call", "ensure_wait", "ensure_pip"}

\* C36: the downloading flag of a capability is true only while an install
\* attempt for its package is in flight, stays true throughout each such
\* attempt, also when download requests for the capability overlap, and is
\* false once no download request for the capability is in progress.
C36_FlagTracksAttempts ==
    \A s \in Services :
        /\ downloading[s] =>
              \E t \in Callers :
                  Attempting(t, s) \/ (tasks[t].op = "download" /\ tasks[t].svc = s
                                       /\ tasks[t].pc = "dl_ensured")
        /\ \A t \in Callers : Attempting(t, s) => downloading[s]
        /\ (\A t \in Callers : tasks[t].op = "download" /\ tasks[t].svc = s
                                  => tasks[t].pc = "done")
              => ~downloading[s]

\* C37: a service enters the registry only on an initialize() that returned
\* True, at startup or in a download request, and a download request whose
\* install succeeded for an enabled capability that is not Ready calls
\* initialize() again, so that every registered service is one whose most
\* recent initialize() returned True.
C37_RegisteredMeansInitialized ==
    [][/\ \A s \in Services :
             (~Registered(s) /\ Registered(s)') =>
                 \E t \in Tasks :
                     /\ tasks[t].svc = s
                     /\ tasks[t].pc \in {"ls_inited", "dl_inited"}
                     /\ tasks[t].ret = "True"
       /\ \A t \in Callers :
             (/\ tasks[t].pc = "dl_ensured" /\ tasks'[t] # tasks[t]
              /\ tasks[t].ret = "True" /\ enabled[tasks[t].svc]
              /\ ~is_ready(tasks[t].svc))
                 => tasks'[t].pc = "initialize_call"]_vars

\* C38: whenever the on-demand download of an enabled capability returns
\* success = true, the capability's is_ready() is true at the time of the
\* response.
C38_SuccessMeansReady ==
    [][\A t \in Callers :
          (/\ tasks[t].op = "download" /\ Returns(t, "download")
           /\ tasks'[t].ret = "True" /\ enabled[tasks[t].svc])
              => is_ready(tasks[t].svc)']_vars

\* C39: after shutdown has completed no service holds a model handle,
\* whether its initialize() returned True or not and whether it was
\* registered or not.
C39_NoHandleAfterShutdown ==
    (tasks[Main].op = "lifespan" /\ tasks[Main].pc = "done") =>
        \A s \in Services : model[s] = NoModel

\* C40: an inference operation that passed its readiness check on a service
\* runs against a model handle that is set until it finishes: no cleanup()
\* of the service drops the handle while the inference is on the worker pool.
C40_HandleHeldDuringInference ==
    \A t \in Callers :
        (tasks[t].op \in Checked /\ tasks[t].pc = "infer_run") =>
            model[tasks[t].svc] # NoModel
============================================================================
